---- MODULE Spec2Model ----
(***************************************************************************)
(* Model of scripts/get-changed-tests.mjs: getChangedTests().              *)
(*                                                                         *)
(* A JavaScript string is a sequence of one-character strings, so that     *)
(* trim, includes, replace, split, startsWith and the regular expression   *)
(* are computed character by character.  One run of the function is one    *)
(* behaviour; pc is the position of the run in the function body.          *)
(***************************************************************************)
EXTENDS Naturals, Sequences, FiniteSets

VARIABLES
    pc,            \* position of the run in getChangedTests
    event,         \* the file at GITHUB_EVENT_PATH, as the run will find it
    procEnv,       \* process.env: GITHUB_REF_NAME, GITHUB_REPOSITORY, GITHUB_SHA
    repo,          \* what the git commands print when they succeed
    eventData,     \* let eventData
    branchName,    \* const branchName
    remoteUrl,     \* const remoteUrl
    commitSha,     \* const commitSha
    calls,         \* the execa() invocations so far, in order, with their outcome
    changesResult, \* changesResult.stdout
    changedFiles,  \* const changedFiles
    idx,           \* position of the for...of loop in changedFiles
    devTests,      \* const devTests
    prodTests,     \* const prodTests
    disk,          \* the working tree as fs.access has observed it so far
    visited,       \* per loop iteration: the line, the normalized file, what was pushed
    error,         \* the error the run rejected with, if any
    result         \* the value the run resolved with, if any

vars == <<pc, event, procEnv, repo, eventData, branchName, remoteUrl, commitSha,
          calls, changesResult, changedFiles, idx, devTests, prodTests, disk,
          visited, error, result>>

(***************************************************************************)
(* Bounds of the model.                                                    *)
(***************************************************************************)
MaxDiffLines == 2

(***************************************************************************)
(* String literals of the source.                                          *)
(***************************************************************************)
S_empty == << >>
S_canary == <<"c", "a", "n", "a", "r", "y">>
S_upstream == <<"v", "e", "r", "c", "e", "l", "/", "n", "e", "x", "t", ".", "j", "s">>
S_test_dir == <<"t", "e", "s", "t", "/">>
S_e2e_dir == S_test_dir \o <<"e", "2", "e", "/">>
S_prod_prefix == S_test_dir \o <<"p", "r", "o", "d">>
S_dev_prefix == S_test_dir \o <<"d", "e", "v", "e", "l", "o", "p", "m", "e", "n", "t">>
S_dot_test_dot == <<".", "t", "e", "s", "t", ".">>
S_js == <<"j", "s">>
S_ts == <<"t", "s">>
S_tsx == <<"t", "s", "x">>
NEWLINE == "\n"
BACKSLASH == "\\"
SLASH == "/"

CMD_BRANCH == "git rev-parse --abbrev-ref HEAD"
CMD_REMOTE_URL == "git remote get-url origin"
CMD_SHA == "git rev-parse HEAD"
CMD_SET_BRANCHES == "git remote set-branches --add origin canary"
CMD_FETCH == "git fetch origin canary --depth=20"
CMD_REMOTE_V == "git remote -v"
CMD_DIFF == "git diff origin/canary --name-only"

(***************************************************************************)
(* JavaScript string operations.                                           *)
(***************************************************************************)
\* A JSON value of the payload that is truthy and not a string (a number).
NonString == <<"<number>">>

IsString(v) == v # NonString

\* String.prototype.startsWith
StartsWith(s, p) == Len(s) >= Len(p) /\ SubSeq(s, 1, Len(p)) = p

\* s ends with p (the "...$" of the regular expression)
EndsWith(s, p) == Len(s) >= Len(p) /\ SubSeq(s, Len(s) - Len(p) + 1, Len(s)) = p

\* String.prototype.includes
Includes(s, sub) ==
    \E i \in 1..(Len(s) + 1) :
        /\ i + Len(sub) - 1 <= Len(s)
        /\ SubSeq(s, i, i + Len(sub) - 1) = sub

WhiteSpace == {" ", "\t", "\n", "\r"}

\* String.prototype.trim
Trim(s) ==
    LET keep == {i \in 1..Len(s) : s[i] \notin WhiteSpace}
    IN  IF keep = {} THEN S_empty
        ELSE LET lo == CHOOSE i \in keep : \A j \in keep : i <= j
                 hi == CHOOSE i \in keep : \A j \in keep : j <= i
             IN  SubSeq(s, lo, hi)

\* String.prototype.split('\n')
RECURSIVE Split(_)
Split(s) ==
    LET at == {i \in 1..Len(s) : s[i] = NEWLINE}
    IN  IF at = {} THEN <<s>>
        ELSE LET i == CHOOSE k \in at : \A j \in at : k <= j
             IN  <<SubSeq(s, 1, i - 1)>> \o Split(SubSeq(s, i + 1, Len(s)))

\* the stdout of `git diff --name-only`: one path per line (execa strips the
\* final newline)
RECURSIVE JoinLines(_)
JoinLines(lines) ==
    IF lines = << >> THEN S_empty
    ELSE IF Len(lines) = 1 THEN lines[1]
    ELSE lines[1] \o <<NEWLINE>> \o JoinLines(Tail(lines))

\* file.replace('\\', '/'): the first backslash only
NormalizeFirstOnly(f) ==
    LET at == {i \in 1..Len(f) : f[i] = BACKSLASH}
    IN  IF at = {} THEN f
        ELSE LET k == CHOOSE i \in at : \A j \in at : i <= j
             IN  [i \in 1..Len(f) |-> IF i = k THEN SLASH ELSE f[i]]

\* file.replace(/\\/g, '/')
Normalize(f) == [i \in 1..Len(f) |-> IF f[i] = BACKSLASH THEN SLASH ELSE f[i]]

\* characters the "." of a regular expression does not match
LineTerminators == {"\n", "\r"}

\* file.match(/^test\/.*?\.test\.(js|ts|tsx)$/)
MatchesTestPattern(f) ==
    /\ StartsWith(f, S_test_dir)
    /\ \E ext \in {S_js, S_ts, S_tsx} :
          LET suffix == S_dot_test_dot \o ext
          IN  /\ Len(f) >= Len(S_test_dir) + Len(suffix)
              /\ EndsWith(f, suffix)
              /\ \A i \in (Len(S_test_dir) + 1)..(Len(f) - Len(suffix)) :
                    f[i] \notin LineTerminators

(***************************************************************************)
(* The steps of getChangedTests that decide on values.                     *)
(***************************************************************************)
\* the payload of an event file that yields no pull_request.head
EmptyHead == [ref |-> S_empty, full_name |-> S_empty, sha |-> S_empty]

\* JSON.parse(await fs.readFile(...))['pull_request'] || {}, or {} when the
\* read or the parse throws
ParseEvent(ev) == IF ev.kind = "pull_request" THEN ev.head ELSE EmptyHead

\* a || b || (await execa(...)).stdout with the operands in the wrong order
FallbackEnvFirst(payloadField, envVar) ==
    IF envVar # S_empty THEN [live |-> FALSE, value |-> envVar]
    ELSE IF payloadField # S_empty THEN [live |-> FALSE, value |-> payloadField]
    ELSE [live |-> TRUE, value |-> S_empty]

\* eventData?.head?.x || process.env.X || (await execa(...)).stdout:
\* live says whether the third operand is evaluated
Fallback(payloadField, envVar) ==
    IF payloadField # S_empty THEN [live |-> FALSE, value |-> payloadField]
    ELSE IF envVar # S_empty THEN [live |-> FALSE, value |-> envVar]
    ELSE [live |-> TRUE, value |-> S_empty]

\* branchName === 'canary' && remoteUrl.includes('vercel/next.js'): no trim()
IsCanaryUntrimmed(b, r) == b = S_canary /\ Includes(r, S_upstream)

\* branchName.trim() === 'canary' && remoteUrl.includes('vercel/next.js')
IsCanary(b, r) == Trim(b) = S_canary /\ Includes(r, S_upstream)

\* evaluating isCanary throws a TypeError: trim or includes is not a function
IsCanaryThrows(b, r) ==
    \/ ~IsString(b)
    \/ IsString(b) /\ Trim(b) = S_canary /\ ~IsString(r)

\* the catch handler hands back what the failed command printed
DiffStdoutKept(ok, out) == out

\* changesResult.stdout: the command's output, or '' from the catch handler
DiffStdout(ok, out) == IF ok THEN out ELSE S_empty

\* the existence test is dropped from the condition
QualifiesUnchecked(f, fileExists) == MatchesTestPattern(f)

\* fileExists && file.match(/^test\/.*?\.test\.(js|ts|tsx)$/)
Qualifies(f, fileExists) == fileExists /\ MatchesTestPattern(f)

\* the e2e branch pushes to devTests only
BucketE2eDevOnly(f) ==
    IF StartsWith(f, S_e2e_dir) THEN [dev |-> TRUE, prod |-> FALSE]
    ELSE IF StartsWith(f, S_prod_prefix) THEN [dev |-> FALSE, prod |-> TRUE]
    ELSE IF StartsWith(f, S_dev_prefix) THEN [dev |-> TRUE, prod |-> FALSE]
    ELSE [dev |-> FALSE, prod |-> FALSE]

\* the if / else if chain on startsWith: which lists the file is pushed to
Bucket(f) ==
    IF StartsWith(f, S_e2e_dir) THEN [dev |-> TRUE, prod |-> TRUE]
    ELSE IF StartsWith(f, S_prod_prefix) THEN [dev |-> FALSE, prod |-> TRUE]
    ELSE IF StartsWith(f, S_dev_prefix) THEN [dev |-> TRUE, prod |-> FALSE]
    ELSE [dev |-> FALSE, prod |-> FALSE]

\* a push that skips a file the list already holds
PushUnique(list, f) ==
    IF \E i \in 1..Len(list) : list[i] = f THEN list ELSE Append(list, f)

\* Array.prototype.push
Push(list, f) == Append(list, f)

\* one execa() invocation, as recorded in calls
Call(cmd, ok) == [cmd |-> cmd, ok |-> ok]

(***************************************************************************)
(* The inputs of a run: the event file, the environment, the repository.   *)
(***************************************************************************)
B_canary_padded == <<" ">> \o S_canary \o <<" ">>
B_feature == <<"f", "e", "a", "t">>
B_main == <<"m", "a", "i", "n">>
B_dev == <<"d", "e", "v">>
R_fork == <<"f", "o", "r", "k", "/", "n", "e", "x", "t", ".", "j", "s">>
R_mine == <<"m", "e", "/", "n", "e", "x", "t", ".", "j", "s">>
R_upstream_ssh == <<"g", "i", "t", "@", "h", ":">> \o S_upstream \o <<".", "g", "i", "t">>
R_fork_ssh == <<"g", "i", "t", "@", "h", ":", "f", "/", "n", ".", "g", "i", "t">>
SHA_payload == <<"a", "1">>
SHA_env == <<"b", "2">>
SHA_git == <<"c", "3">>

F_e2e == S_e2e_dir \o <<"a">> \o S_dot_test_dot \o S_ts
F_e2e_win == <<"t", "e", "s", "t", BACKSLASH, "e", "2", "e", BACKSLASH, "a">> \o S_dot_test_dot \o S_ts
F_prod == S_prod_prefix \o <<"/", "b">> \o S_dot_test_dot \o S_js
F_production == S_prod_prefix \o <<"u", "c", "t", "i", "o", "n", "/", "f">> \o S_dot_test_dot \o S_js
F_development == S_dev_prefix \o <<"/", "c">> \o S_dot_test_dot \o S_tsx
F_unit == S_test_dir \o <<"u", "n", "i", "t", "/", "d">> \o S_dot_test_dot \o S_ts
F_jsx == S_e2e_dir \o <<"a">> \o S_dot_test_dot \o <<"j", "s", "x">>
F_outside == <<"l", "i", "b", "/", "e">> \o S_dot_test_dot \o S_js

\* the lines `git diff --name-only` may print
DiffLines == {F_e2e, F_e2e_win, F_prod, F_production, F_development, F_unit,
              F_jsx, F_outside}

RECURSIVE SeqsUpTo(_, _)
SeqsUpTo(S, n) ==
    IF n = 0 THEN {<< >>}
    ELSE LET shorter == SeqsUpTo(S, n - 1)
         IN  shorter \cup {Append(q, x) : q \in {r \in shorter : Len(r) = n - 1}, x \in S}

Heads(refs, names, shas) == [ref : refs, full_name : names, sha : shas]

\* kinds: the ways the file yields no payload (GITHUB_EVENT_PATH unset or the
\* file missing, JSON.parse throwing, a JSON object without pull_request)
Events(kinds, heads) ==
    {[kind |-> k, head |-> EmptyHead] : k \in kinds}
        \cup {[kind |-> "pull_request", head |-> h] : h \in heads}

ProcEnvs(refs, names, shas) ==
    [GITHUB_REF_NAME : refs, GITHUB_REPOSITORY : names, GITHUB_SHA : shas]

Repos(branches, urls, diffs) ==
    [branch : branches, url : urls, sha : {SHA_git}, diff : {JoinLines(d) : d \in diffs}]

InitWith(events, envs, repos) ==
    /\ pc = "readEvent"
    /\ event \in events
    /\ procEnv \in envs
    /\ repo \in repos
    /\ eventData = EmptyHead
    /\ branchName = S_empty
    /\ remoteUrl = S_empty
    /\ commitSha = S_empty
    /\ calls = << >>
    /\ changesResult = S_empty
    /\ changedFiles = << >>
    /\ idx = 0
    /\ devTests = << >>
    /\ prodTests = << >>
    /\ disk = << >>
    /\ visited = << >>
    /\ error = "none"
    /\ result = [returned |-> FALSE]

\* every way the context can be given, a few diffs
Init ==
    InitWith(
        Events({"unreadable", "unparseable", "no_pull_request"},
               Heads({S_empty, S_canary, B_feature, NonString},
                      {S_empty, S_upstream, R_fork, NonString},
                      {S_empty, SHA_payload})),
        ProcEnvs({S_empty, B_canary_padded, B_main},
                 {S_empty, S_upstream, R_mine},
                 {S_empty, SHA_env}),
        Repos({S_canary, B_dev}, {R_upstream_ssh, R_fork_ssh},
              {<< >>, <<F_e2e_win, F_prod>>, <<F_development>>}))

\* a few contexts, every diff of up to MaxDiffLines lines
InitClassify ==
    InitWith(
        Events({"unreadable"}, Heads({B_feature}, {R_fork}, {SHA_payload})),
        ProcEnvs({S_empty}, {S_empty}, {S_empty}),
        Repos({S_canary}, {R_upstream_ssh, R_fork_ssh}, SeqsUpTo(DiffLines, MaxDiffLines)))

(***************************************************************************)
(* The run, statement by statement.                                        *)
(***************************************************************************)
\* the run rejects with err: nothing after the throwing statement executes
Throw(err) ==
    /\ pc' = "thrown"
    /\ error' = err

\* try { eventData = JSON.parse(await fs.readFile(...))['pull_request'] || {} }
\* catch (_) {}
ReadEvent ==
    /\ pc = "readEvent"
    /\ eventData' = ParseEvent(event)
    /\ pc' = "branchName"
    /\ UNCHANGED <<event, procEnv, repo, branchName, remoteUrl, commitSha, calls,
                   changesResult, changedFiles, idx, devTests, prodTests, disk,
                   visited, error, result>>

\* const branchName = eventData?.head?.ref || process.env.GITHUB_REF_NAME ||
\*   (await execa('git rev-parse --abbrev-ref HEAD', EXECA_OPTS)).stdout
ResolveBranchName ==
    /\ pc = "branchName"
    /\ LET chain == Fallback(eventData.ref, procEnv.GITHUB_REF_NAME)
       IN  IF ~chain.live
           THEN /\ branchName' = chain.value
                /\ pc' = "remoteUrl"
                /\ UNCHANGED <<calls, error>>
           ELSE \E ok \in BOOLEAN :
                /\ calls' = Append(calls, Call(CMD_BRANCH, ok))
                /\ IF ok
                   THEN branchName' = repo.branch /\ pc' = "remoteUrl" /\ UNCHANGED error
                   ELSE Throw(CMD_BRANCH) /\ UNCHANGED branchName
    /\ UNCHANGED <<event, procEnv, repo, eventData, remoteUrl, commitSha,
                   changesResult, changedFiles, idx, devTests, prodTests, disk,
                   visited, result>>

\* const remoteUrl = eventData?.head?.repo?.full_name ||
\*   process.env.GITHUB_REPOSITORY ||
\*   (await execa('git remote get-url origin', EXECA_OPTS)).stdout
ResolveRemoteUrl ==
    /\ pc = "remoteUrl"
    /\ LET chain == Fallback(eventData.full_name, procEnv.GITHUB_REPOSITORY)
       IN  IF ~chain.live
           THEN /\ remoteUrl' = chain.value
                /\ pc' = "commitSha"
                /\ UNCHANGED <<calls, error>>
           ELSE \E ok \in BOOLEAN :
                /\ calls' = Append(calls, Call(CMD_REMOTE_URL, ok))
                /\ IF ok
                   THEN remoteUrl' = repo.url /\ pc' = "commitSha" /\ UNCHANGED error
                   ELSE Throw(CMD_REMOTE_URL) /\ UNCHANGED remoteUrl
    /\ UNCHANGED <<event, procEnv, repo, eventData, branchName, commitSha,
                   changesResult, changedFiles, idx, devTests, prodTests, disk,
                   visited, result>>

\* const commitSha = eventData?.head?.sha || process.env.GITHUB_SHA ||
\*   (await execa('git rev-parse HEAD', EXECA_OPTS)).stdout
ResolveCommitSha ==
    /\ pc = "commitSha"
    /\ LET chain == Fallback(eventData.sha, procEnv.GITHUB_SHA)
       IN  IF ~chain.live
           THEN /\ commitSha' = chain.value
                /\ pc' = "isCanary"
                /\ UNCHANGED <<calls, error>>
           ELSE \E ok \in BOOLEAN :
                /\ calls' = Append(calls, Call(CMD_SHA, ok))
                /\ IF ok
                   THEN commitSha' = repo.sha /\ pc' = "isCanary" /\ UNCHANGED error
                   ELSE Throw(CMD_SHA) /\ UNCHANGED commitSha
    /\ UNCHANGED <<event, procEnv, repo, eventData, branchName, remoteUrl,
                   changesResult, changedFiles, idx, devTests, prodTests, disk,
                   visited, result>>

\* const isCanary = ...; if (isCanary) { return { devTests: [], prodTests: [] } }
CheckCanary ==
    /\ pc = "isCanary"
    /\ IF IsCanaryThrows(branchName, remoteUrl)
       THEN Throw("TypeError") /\ UNCHANGED result
       ELSE IF IsCanary(branchName, remoteUrl)
       THEN /\ result' = [devTests |-> << >>, prodTests |-> << >>]
            /\ pc' = "done"
            /\ UNCHANGED error
       ELSE /\ pc' = "setBranches"
            /\ UNCHANGED <<error, result>>
    /\ UNCHANGED <<event, procEnv, repo, eventData, branchName, remoteUrl, commitSha,
                   calls, changesResult, changedFiles, idx, devTests, prodTests,
                   disk, visited>>

\* try { await execa('git remote set-branches --add origin canary', ...)
SetBranches ==
    /\ pc = "setBranches"
    /\ \E ok \in BOOLEAN :
          /\ calls' = Append(calls, Call(CMD_SET_BRANCHES, ok))
          /\ pc' = IF ok THEN "fetch" ELSE "catchFetch"
    /\ UNCHANGED <<event, procEnv, repo, eventData, branchName, remoteUrl, commitSha,
                   changesResult, changedFiles, idx, devTests, prodTests, disk,
                   visited, error, result>>

\*   await execa('git fetch origin canary --depth=20', EXECA_OPTS_STDIO) }
Fetch ==
    /\ pc = "fetch"
    /\ \E ok \in BOOLEAN :
          /\ calls' = Append(calls, Call(CMD_FETCH, ok))
          /\ pc' = IF ok THEN "diff" ELSE "catchFetch"
    /\ UNCHANGED <<event, procEnv, repo, eventData, branchName, remoteUrl, commitSha,
                   changesResult, changedFiles, idx, devTests, prodTests, disk,
                   visited, error, result>>

\* catch (err) { console.error(await execa('git remote -v', EXECA_OPTS_STDIO))
\*   console.error(`Failed to fetch origin/canary`, err) }
\* the await is inside the handler: its rejection leaves the function
CatchFetch ==
    /\ pc = "catchFetch"
    /\ \E ok \in BOOLEAN :
          /\ calls' = Append(calls, Call(CMD_REMOTE_V, ok))
          /\ IF ok THEN pc' = "diff" /\ UNCHANGED error ELSE Throw(CMD_REMOTE_V)
    /\ UNCHANGED <<event, procEnv, repo, eventData, branchName, remoteUrl, commitSha,
                   changesResult, changedFiles, idx, devTests, prodTests, disk,
                   visited, result>>

\* the diff awaited without its .catch(): a failure leaves the function
DiffUncaught ==
    /\ pc = "diff"
    /\ \E ok \in BOOLEAN :
          /\ calls' = Append(calls, Call(CMD_DIFF, ok))
          /\ IF ok
             THEN /\ changesResult' = repo.diff
                  /\ changedFiles' = Split(repo.diff)
                  /\ idx' = 1
                  /\ pc' = "loop"
                  /\ UNCHANGED error
             ELSE Throw(CMD_DIFF) /\ UNCHANGED <<changesResult, changedFiles, idx>>
    /\ UNCHANGED <<event, procEnv, repo, eventData, branchName, remoteUrl, commitSha,
                   devTests, prodTests, disk, visited, result>>

\* const changesResult = await execa(`git diff origin/canary --name-only`, ...)
\*   .catch((err) => { ...; return { stdout: '', stderr: '' } })
\* const changedFiles = changesResult.stdout.split('\n')
Diff ==
    /\ pc = "diff"
    /\ \E ok \in BOOLEAN :
          /\ calls' = Append(calls, Call(CMD_DIFF, ok))
          /\ changesResult' = DiffStdout(ok, repo.diff)
    /\ changedFiles' = Split(changesResult')
    /\ idx' = 1
    /\ pc' = "loop"
    /\ UNCHANGED <<event, procEnv, repo, eventData, branchName, remoteUrl, commitSha,
                   devTests, prodTests, disk, visited, error, result>>

\* fs.access(path.join(process.cwd(), file), F_OK): '' joins to the working
\* directory itself; any other path is there or not, and stays so
Access(f, seen, fileExists) ==
    IF f = S_empty THEN fileExists
    ELSE IF f \in DOMAIN seen THEN fileExists = seen[f]
    ELSE TRUE

Observe(seen, f, fileExists) ==
    IF f = S_empty \/ f \in DOMAIN seen THEN seen
    ELSE [g \in DOMAIN seen \cup {f} |-> IF g = f THEN fileExists ELSE seen[g]]

\* one iteration of for (let file of changedFiles) { ... }
LoopBody ==
    /\ pc = "loop"
    /\ idx <= Len(changedFiles)
    /\ LET file == Normalize(changedFiles[idx])
       IN  \E fileExists \in BOOLEAN :
           /\ Access(file, disk, fileExists)
           /\ disk' = Observe(disk, file, fileExists)
           /\ LET to == IF Qualifies(file, fileExists) THEN Bucket(file)
                        ELSE [dev |-> FALSE, prod |-> FALSE]
              IN  /\ devTests' = IF to.dev THEN Push(devTests, file) ELSE devTests
                  /\ prodTests' = IF to.prod THEN Push(prodTests, file) ELSE prodTests
                  /\ visited' = Append(visited,
                        [line |-> changedFiles[idx], file |-> file,
                         fileExists |-> fileExists, dev |-> to.dev, prod |-> to.prod])
    /\ idx' = idx + 1
    /\ UNCHANGED <<pc, event, procEnv, repo, eventData, branchName, remoteUrl,
                   commitSha, calls, changesResult, changedFiles, error, result>>

\* return { devTests, prodTests, commitSha }
Return ==
    /\ pc = "loop"
    /\ idx > Len(changedFiles)
    /\ result' = [devTests |-> devTests, prodTests |-> prodTests, commitSha |-> commitSha]
    /\ pc' = "done"
    /\ UNCHANGED <<event, procEnv, repo, eventData, branchName, remoteUrl, commitSha,
                   calls, changesResult, changedFiles, idx, devTests, prodTests,
                   disk, visited, error>>

Next ==
    \/ ReadEvent
    \/ ResolveBranchName
    \/ ResolveRemoteUrl
    \/ ResolveCommitSha
    \/ CheckCanary
    \/ SetBranches
    \/ Fetch
    \/ CatchFetch
    \/ Diff
    \/ LoopBody
    \/ Return

Spec == Init /\ [][Next]_vars

SpecClassify == InitClassify /\ [][Next]_vars

(***************************************************************************)
(* Vocabulary of the properties.                                           *)
(***************************************************************************)
Invoked(cmd) == \E i \in 1..Len(calls) : calls[i].cmd = cmd

Failed(cmd) == \E i \in 1..Len(calls) : calls[i].cmd = cmd /\ ~calls[i].ok

Finished == pc \in {"done", "thrown"}

ResolutionCmds == {CMD_BRANCH, CMD_REMOTE_URL, CMD_SHA}

FetchStageCmds == {CMD_SET_BRANCHES, CMD_FETCH, CMD_REMOTE_V, CMD_DIFF}

\* the run is past the statement at position p without having thrown in it
Past(p) ==
    LET order == <<"readEvent", "branchName", "remoteUrl", "commitSha", "isCanary",
                   "setBranches", "fetch", "catchFetch", "diff", "loop", "done">>
        at(q) == CHOOSE i \in 1..Len(order) : order[i] = q
        reached == IF pc # "thrown" THEN pc
                   ELSE IF error = CMD_BRANCH THEN "branchName"
                   ELSE IF error = CMD_REMOTE_URL THEN "remoteUrl"
                   ELSE IF error = CMD_SHA THEN "commitSha"
                   ELSE IF error = "TypeError" THEN "isCanary"
                   ELSE "catchFetch"
    IN  at(reached) > at(p)

\* branch name, remote URL and commit SHA are all resolved
Resolved == Past("commitSha")

Range(q) == {q[i] : i \in 1..Len(q)}

Count(q, x) == Cardinality({i \in 1..Len(q) : q[i] = x})

\* the path with every backslash turned into a forward slash
ForwardSlashes(line) ==
    [i \in 1..Len(line) |-> IF line[i] = "\\" THEN "/" ELSE line[i]]

\* test/**/*.test.{js,ts,tsx}, anchored at test/
IsTestFilePath(p) ==
    /\ StartsWith(p, <<"t", "e", "s", "t", "/">>)
    /\ \E ext \in {<<"j", "s">>, <<"t", "s">>, <<"t", "s", "x">>} :
          /\ EndsWith(p, <<".", "t", "e", "s", "t", ".">> \o ext)
          /\ Len(p) >= 11 + Len(ext)

UnderE2e(p) == StartsWith(p, <<"t", "e", "s", "t", "/", "e", "2", "e", "/">>)

UnderProd(p) == StartsWith(p, <<"t", "e", "s", "t", "/", "p", "r", "o", "d">>)

UnderDevelopment(p) ==
    StartsWith(p, <<"t", "e", "s", "t", "/", "d", "e", "v", "e", "l", "o", "p", "m", "e", "n", "t">>)

WellFormed(r) ==
    /\ {"devTests", "prodTests"} \subseteq DOMAIN r
    /\ r.devTests \in Seq(Range(r.devTests))
    /\ r.prodTests \in Seq(Range(r.prodTests))

CanaryCase ==
    /\ Resolved
    /\ IsString(branchName) /\ Trim(branchName) = <<"c", "a", "n", "a", "r", "y">>
    /\ IsString(remoteUrl) /\ Includes(remoteUrl, S_upstream)

ResolutionFailed == \E c \in ResolutionCmds : Failed(c)

\* the diagnostic command of the fetch's catch handler has failed
DiagnosticFailed == Failed(CMD_REMOTE_V)

\* the payload gave a value that is not a string where isCanary needs one
BadPayloadType ==
    /\ Resolved
    /\ \/ branchName = NonString
       \/ /\ branchName # NonString
          /\ Trim(branchName) = <<"c", "a", "n", "a", "r", "y">>
          /\ remoteUrl = NonString

C3_FetchFailureNeverAborts ==
    (Finished /\ (Failed(CMD_SET_BRANCHES) \/ Failed(CMD_FETCH))) =>
        /\ pc = "done"
        /\ Invoked(CMD_DIFF)
        /\ WellFormed(result)
        /\ "commitSha" \in DOMAIN result

(***************************************************************************)
(* C7.  On a non-canary run, when git diff fails its output is replaced by *)
(* the empty string and the run continues: it returns devTests = [] and    *)
(* prodTests = [] together with the resolved commitSha, and does not throw.*)
(***************************************************************************)
C7_DiffFailureYieldsEmpty ==
    Failed(CMD_DIFF) =>
        /\ pc \in {"loop", "done"}
        /\ changesResult = << >>
        /\ devTests = << >> /\ prodTests = << >>
        /\ pc = "done" =>
              result = [devTests |-> << >>, prodTests |-> << >>, commitSha |-> commitSha]
        /\ ~Finished => ENABLED Next

C7_Witness ==
    /\ pc = "done"
    /\ Failed(CMD_DIFF)
    /\ repo.diff # << >>
    /\ result.commitSha = SHA_env

(***************************************************************************)
(* C9.  The failure asymmetry: a failure of a context-resolution git       *)
(* command that the fallback chain reaches aborts the run before any fetch *)
(* or diff command is invoked, whereas a failure of the baseline fetch or  *)
(* of the diff never aborts the run.                                       *)
(***************************************************************************)
C9_FailureAsymmetry ==
    /\ ResolutionFailed =>
          /\ pc = "thrown"
          /\ error \in ResolutionCmds
          /\ \A c \in FetchStageCmds : ~Invoked(c)
    /\ (Failed(CMD_FETCH) \/ Failed(CMD_DIFF)) => pc # "thrown"

\* what the event file contributes: its pull_request.head, if it has one
PayloadOf(ev) ==
    IF ev.kind \in {"unreadable", "unparseable", "no_pull_request"}
    THEN [ref |-> << >>, full_name |-> << >>, sha |-> << >>]
    ELSE ev.head

FirstNonEmpty(candidates) ==
    LET nonEmpty == {i \in 1..Len(candidates) : candidates[i] # << >>}
    IN  IF nonEmpty = {} THEN << >>
        ELSE candidates[CHOOSE i \in nonEmpty : \A j \in nonEmpty : i <= j]

ChainHolds(at, value, fromPayload, fromEnv, fromGit, cmd) ==
    /\ Invoked(cmd) => (fromPayload = << >> /\ fromEnv = << >>)
    /\ Past(at) =>
          /\ value = FirstNonEmpty(<<fromPayload, fromEnv, fromGit>>)
          /\ (fromPayload = << >> /\ fromEnv = << >>) => Invoked(cmd)

(***************************************************************************)
(* C8.  Branch name, remote URL and commit SHA are each resolved by the    *)
(* chain payload field -> environment variable -> live git command, the    *)
(* first non-empty value winning; the git command of a value is invoked    *)
(* only when its payload field and its environment variable are both       *)
(* empty; an unreadable or unparseable event file is an empty payload.     *)
(***************************************************************************)
C8_FallbackChain ==
    /\ ChainHolds("branchName", branchName, PayloadOf(event).ref,
                  procEnv.GITHUB_REF_NAME, repo.branch, CMD_BRANCH)
    /\ ChainHolds("remoteUrl", remoteUrl, PayloadOf(event).full_name,
                  procEnv.GITHUB_REPOSITORY, repo.url, CMD_REMOTE_URL)
    /\ ChainHolds("commitSha", commitSha, PayloadOf(event).sha,
                  procEnv.GITHUB_SHA, repo.sha, CMD_SHA)

C8_Witness ==
    /\ pc = "done"
    /\ event.kind = "pull_request"
    /\ event.head.ref # << >> /\ procEnv.GITHUB_REF_NAME # << >>
    /\ branchName = event.head.ref
    /\ event.head.full_name = << >>
    /\ remoteUrl = procEnv.GITHUB_REPOSITORY /\ remoteUrl # << >>
    /\ commitSha = repo.sha /\ Invoked(CMD_SHA)
    /\ ~Invoked(CMD_BRANCH) /\ ~Invoked(CMD_REMOTE_URL)

(***************************************************************************)
(* C4.  A changed path that exists and matches the test-file pattern is    *)
(* bucketed by the first rule that applies: under test/e2e/ it is appended *)
(* to devTests and to prodTests; otherwise under test/prod to prodTests    *)
(* only; otherwise under test/development to devTests only; otherwise to   *)
(* neither.  A path is in both lists only if it is under test/e2e/.        *)
(***************************************************************************)
C4_Bucketing ==
    /\ \A i \in 1..Len(visited) :
          LET f == visited[i].file
              inDev == f \in Range(devTests)
              inProd == f \in Range(prodTests)
          IN  (visited[i].fileExists /\ IsTestFilePath(f)) =>
                 IF UnderE2e(f) THEN inDev /\ inProd
                 ELSE IF UnderProd(f) THEN ~inDev /\ inProd
                 ELSE IF UnderDevelopment(f) THEN inDev /\ ~inProd
                 ELSE ~inDev /\ ~inProd
    /\ \A f \in Range(devTests) \cap Range(prodTests) : UnderE2e(f)

C4_Witness ==
    /\ pc = "done"
    /\ changedFiles = <<F_e2e, F_production>>
    /\ result.devTests = <<F_e2e>>
    /\ result.prodTests = <<F_e2e, F_production>>

(***************************************************************************)
(* C5.  Every path in devTests or prodTests existed on disk when it was    *)
(* checked and matches test/**/*.test.{js,ts,tsx}; a changed path that     *)
(* does not match, or that matches but does not exist, is in neither list. *)
(***************************************************************************)
C5_OnlyExistingTestFiles ==
    /\ \A f \in Range(devTests) \cup Range(prodTests) :
          /\ IsTestFilePath(f)
          /\ \E i \in 1..Len(visited) : visited[i].file = f /\ visited[i].fileExists
    /\ \A i \in 1..Len(visited) :
          (~IsTestFilePath(visited[i].file) \/ ~visited[i].fileExists) =>
              visited[i].file \notin Range(devTests) \cup Range(prodTests)

C5_Witness ==
    /\ pc = "done"
    /\ \E i, j \in 1..Len(visited) :
          /\ visited[i].file = F_e2e /\ ~visited[i].fileExists
          /\ visited[j].file = F_prod /\ visited[j].fileExists
    /\ result.devTests = << >>
    /\ result.prodTests = <<F_prod>>

(***************************************************************************)
(* C6.  Backslashes are replaced by forward slashes before the existence   *)
(* check, the pattern match and the bucketing: a diff line with            *)
(* backslashes yields the same entries as its forward-slash form, and the  *)
(* lists never contain a backslash.                                        *)
(***************************************************************************)
C6_BackslashesNormalized ==
    /\ \A f \in Range(devTests) \cup Range(prodTests) :
          \A k \in 1..Len(f) : f[k] # "\\"
    /\ \A i \in 1..Len(visited) :
          visited[i].file = ForwardSlashes(visited[i].line)
    /\ \A i, j \in 1..Len(visited) :
          ForwardSlashes(visited[i].line) = ForwardSlashes(visited[j].line) =>
              /\ visited[i].fileExists = visited[j].fileExists
              /\ visited[i].dev = visited[j].dev
              /\ visited[i].prod = visited[j].prod
    /\ \A f \in Range(devTests) :
          Count(devTests, f) =
              Cardinality({i \in 1..Len(visited) : ForwardSlashes(visited[i].line) = f})
    /\ \A f \in Range(prodTests) :
          Count(prodTests, f) =
              Cardinality({i \in 1..Len(visited) : ForwardSlashes(visited[i].line) = f})

C6_Witness ==
    /\ pc = "done"
    /\ changedFiles = <<F_e2e_win, F_e2e>>
    /\ result.devTests = <<F_e2e, F_e2e>>
    /\ result.prodTests = <<F_e2e, F_e2e>>

\* the entries of q that are in S, in the order of q
RECURSIVE Restrict(_, _)
Restrict(q, S) ==
    IF q = << >> THEN << >>
    ELSE (IF Head(q) \in S THEN <<Head(q)>> ELSE << >>) \o Restrict(Tail(q), S)

\* the normalized diff lines iterated so far
FilesSoFar == [i \in 1..Len(visited) |-> ForwardSlashes(changedFiles[i])]

(***************************************************************************)
(* C10.  devTests and prodTests are built only by appending while the diff *)
(* lines are iterated in order: each is a subsequence of the normalized    *)
(* diff lines, in diff order, without deduplication, so a path that        *)
(* occurs k times in the diff occurs k times in each list it is in.        *)
(***************************************************************************)
C10_AppendOnlyInDiffOrder ==
    /\ (pc = "loop" \/ (pc = "done" /\ "commitSha" \in DOMAIN result)) =>
          /\ Len(visited) + 1 = idx
          /\ devTests = Restrict(FilesSoFar, Range(devTests))
          /\ prodTests = Restrict(FilesSoFar, Range(prodTests))
    /\ pc = "done" /\ "commitSha" \in DOMAIN result =>
          /\ Len(visited) = Len(changedFiles)
          /\ result.devTests = devTests
          /\ result.prodTests = prodTests

C10_Witness ==
    /\ pc = "done"
    /\ changedFiles = <<F_development, F_development>>
    /\ result.devTests = <<F_development, F_development>>
    /\ result.prodTests = << >>
====
